---- MODULE Spec2Model ----
(***************************************************************************)
(* A model of angr's exploration-technique core                            *)
(* (angr/exploration_techniques/__init__.py) and of the select() model     *)
(* (angr/procedures/posix/select.py).                                      *)
(*                                                                         *)
(* Three specifications share the module:                                  *)
(*   SpecMatcher  ExplorationTechnique._condition_to_lambda and the        *)
(*                predicate it returns                                     *)
(*   SpecHooks    ExplorationTechniqueMeta (the compatibility layer) and   *)
(*                the base hooks of ExplorationTechnique                   *)
(*   SpecSelect   select.run                                               *)
(***************************************************************************)
EXTENDS Integers, Sequences, FiniteSets, TLC

(***************************************************************************)
(* Bounds of the model.                                                    *)
(***************************************************************************)
MaxAddr == 3

MaxLen == 2

MaxNfds == 34

Addrs == 1..MaxAddr

VARIABLES
    \* ---- _condition_to_lambda and its closure ----
    condition,          \* the caller's condition object (a list or a set is mutable)
    compiled_cond,      \* the value of the condition when it was compiled
    compile_state,      \* "no" | "ok" | "raised"
    compile_exc,        \* the exception _condition_to_lambda raised
    condition_function, \* the predicate returned
    static_addrs,       \* the set object returned AND captured by the closure
    default_engine,     \* self.project.engines.default_engine
    last_call,          \* the last call of the predicate
    first_result,       \* the result of the first call of the predicate
    \* ---- compatibility layer and base hooks ----
    klass,              \* the class the metaclass built
    hook_call,          \* the last hook invocation and what it did
    \* ---- select.run ----
    sel

matcher_vars == <<condition, compiled_cond, compile_state, compile_exc,
                  condition_function, static_addrs, default_engine,
                  last_call, first_result>>

hook_vars == <<klass, hook_call>>

select_vars == <<sel>>

vars == <<matcher_vars, hook_vars, select_vars>>

(***************************************************************************)
(* Python values a predicate can produce.                                  *)
(***************************************************************************)
PySet(S) == [kind |-> "set", elems |-> S, b |-> FALSE, exc |-> "none"]

PyBool(v) == [kind |-> "bool", elems |-> {}, b |-> v, exc |-> "none"]

PyRaise(e) == [kind |-> "raise", elems |-> {}, b |-> FALSE, exc |-> e]

NoResult == [kind |-> "nocall", elems |-> {}, b |-> FALSE, exc |-> "none"]

Truthy(v) == \/ v.kind = "set" /\ v.elems # {}
             \/ v.kind = "bool" /\ v.b

Falsy(v) == \/ v.kind = "set" /\ v.elems = {}
            \/ v.kind = "bool" /\ ~v.b

RangeOf(s) == {s[k] : k \in 1..Len(s)}

SeqsUpTo(S, n) == UNION {[1..k -> S] : k \in 0..n}

(***************************************************************************)
(* Condition objects.  A tuple or a list is a sequence (duplicates         *)
(* allowed), a set is a set; every other type carries no address.          *)
(***************************************************************************)
Cond(t, v, s, e, f) == [type |-> t, val |-> v, seq |-> s, elems |-> e, fn |-> f]

CollectionTypes == {"tuple", "set", "list"}

SeqTypes == {"tuple", "list"}

Callables == {"always_true", "at_first_addr"}

OtherTypes == {"str", "float", "frozenset", "dict"}

Conditions ==
    {Cond("NoneType", 0, <<>>, {}, "none")}
    \cup {Cond("int", a, <<>>, {}, "none") : a \in Addrs}
    \cup {Cond(t, 0, s, {}, "none") : t \in SeqTypes, s \in SeqsUpTo(Addrs, MaxLen)}
    \cup {Cond("set", 0, <<>>, e, "none") : e \in SUBSET Addrs}
    \cup {Cond("function", 0, <<>>, {}, f) : f \in Callables}
    \cup {Cond(t, 0, <<>>, {}, "none") : t \in OtherTypes}

\* isinstance(condition, int)
IsInt(c) == c.type = "int"

\* a variant that also takes a frozenset for a collection
IsCollectionOrFrozenset(c) == c.type \in CollectionTypes \cup {"frozenset"}

\* isinstance(condition, (tuple, set, list))
IsCollection(c) == c.type \in CollectionTypes

\* hasattr(condition, '__call__')
HasCall(c) == c.type = "function"

\* set(condition)
SetOf(c) == IF c.type \in SeqTypes THEN RangeOf(c.seq) ELSE c.elems

(***************************************************************************)
(* Execution states: an address and what state.block().instruction_addrs   *)
(* does (returns a list of addresses, or raises).                          *)
(***************************************************************************)
\* a variant that catches AngrError alone
CaughtAngrErrorOnly == {"AngrError"}

\* except (AngrError, SimError)
CaughtErrors == {"AngrError", "SimError"}

\* what state.block() may raise
ErrorKinds == {"AngrError", "SimError", "TypeError"}

Blocks == {[raises |-> "none", instruction_addrs |-> I] : I \in SUBSET Addrs}
          \cup {[raises |-> e, instruction_addrs |-> {}] : e \in ErrorKinds}

States == [addr : Addrs, block : Blocks]

Engines == {"no_project", "SimEngineVEX", "SimEngineUnicorn"}

\* a variant that takes every engine to lift blocks
IsAnyEngine(e) == e # "no_project"

\* isinstance(self.project.engines.default_engine, engines.SimEngineVEX)
IsSimEngineVEX(e) == e = "SimEngineVEX"

(***************************************************************************)
(* _condition_to_lambda.  The value returned is (condition_function,       *)
(* static_addrs); static_addrs is one object, held by the caller and by    *)
(* the closure alike.                                                      *)
(***************************************************************************)
ConstFn(d) == [kind |-> "const", value |-> d, fn |-> "none"]

AddrFn == [kind |-> "addrs", value |-> FALSE, fn |-> "none"]

PassFn(f) == [kind |-> "callable", value |-> FALSE, fn |-> f]

NoFn == [kind |-> "none", value |-> FALSE, fn |-> "none"]

StaticSet(S) == [is_none |-> FALSE, elems |-> S]

StaticNone == [is_none |-> TRUE, elems |-> {}]

NoExc == [cls |-> "none", named |-> "none"]

Returned(f, st) == [exc |-> NoExc, fn |-> f, static |-> st]

Raised(cls, type) == [exc |-> [cls |-> cls, named |-> type], fn |-> NoFn, static |-> StaticNone]

\* (condition,)
TupleOf(c) == Cond("tuple", 0, <<c.val>>, {}, "none")

RECURSIVE _condition_to_lambda(_, _)
_condition_to_lambda(c, default) ==
    IF c.type = "NoneType" THEN Returned(ConstFn(default), StaticSet({}))
    ELSE IF IsInt(c) THEN _condition_to_lambda(TupleOf(c), FALSE)
    ELSE IF IsCollection(c) THEN Returned(AddrFn, StaticSet(SetOf(c)))
    ELSE IF HasCall(c) THEN Returned(PassFn(c.fn), StaticNone)
    ELSE Raised("AngrExplorationTechniqueError", c.type)

(***************************************************************************)
(* condition_function(state), the closure of the collection case.          *)
(***************************************************************************)
Outcome(r, f) == [result |-> r, block_fetched |-> f]

\* a variant that answers a bare True
MatchAtAddrTrue(s) == PyBool(TRUE)

\* the value returned when state.addr is in static_addrs
MatchAtAddr(s) == PySet({s.addr})

\* static_addrs.intersection(set(state.block().instruction_addrs)), in its try
BlockProbe(S, s) ==
    IF s.block.raises = "none" THEN Outcome(PySet(S \cap s.block.instruction_addrs), TRUE)
    ELSE IF s.block.raises \in CaughtErrors THEN Outcome(PyBool(FALSE), TRUE)
    ELSE Outcome(PyRaise(s.block.raises), TRUE)

condition_function_addrs(S, engine, s) ==
    IF s.addr \in S THEN Outcome(MatchAtAddr(s), FALSE)
    ELSE IF engine = "no_project" THEN Outcome(PyRaise("AttributeError"), FALSE)
    ELSE IF ~IsSimEngineVEX(engine) THEN Outcome(PyBool(FALSE), FALSE)
    ELSE BlockProbe(S, s)

\* a caller's own predicate
ApplyCallable(f, s) ==
    IF f = "always_true" THEN PyBool(TRUE) ELSE PyBool(s.addr = 1)

CallPredicate(fn, static, engine, s) ==
    IF fn.kind = "const" THEN Outcome(PyBool(fn.value), FALSE)
    ELSE IF fn.kind = "addrs" THEN condition_function_addrs(static.elems, engine, s)
    ELSE Outcome(ApplyCallable(fn.fn, s), FALSE)

(***************************************************************************)
(* Actions of the matcher.                                                 *)
(***************************************************************************)
NoCond == Cond("NoneType", 0, <<>>, {}, "none")

\* the state the predicate is called on; it never changes
probe == last_call.state

InitMatcherVars ==
    /\ condition = NoCond
    /\ compiled_cond = NoCond
    /\ compile_state = "no"
    /\ compile_exc = NoExc
    /\ condition_function = NoFn
    /\ static_addrs = StaticNone
    /\ default_engine \in Engines
    /\ \E s \in States : last_call = [state |-> s, n |-> 0, result |-> NoResult,
                                      block_fetched |-> FALSE]
    /\ first_result = NoResult

IdleMatcherVars ==
    /\ condition = NoCond
    /\ compiled_cond = NoCond
    /\ compile_state = "no"
    /\ compile_exc = NoExc
    /\ condition_function = NoFn
    /\ static_addrs = StaticNone
    /\ default_engine = "no_project"
    /\ last_call = [state |-> [addr |-> 1, block |-> [raises |-> "none", instruction_addrs |-> {}]],
                    n |-> 0, result |-> NoResult, block_fetched |-> FALSE]
    /\ first_result = NoResult

\* condition_function, static_addrs = self._condition_to_lambda(condition, default)
Compile(c, d) ==
    /\ compile_state = "no"
    /\ LET r == _condition_to_lambda(c, d) IN
        /\ condition' = c
        /\ compiled_cond' = c
        /\ compile_exc' = r.exc
        /\ compile_state' = IF r.exc.cls = "none" THEN "ok" ELSE "raised"
        /\ condition_function' = r.fn
        /\ static_addrs' = r.static
    /\ UNCHANGED <<default_engine, last_call, first_result, hook_vars, select_vars>>

\* condition_function(state); n counts the calls: 0, 1, 2 for "more than one"
Call ==
    /\ compile_state = "ok"
    /\ LET o == CallPredicate(condition_function, static_addrs, default_engine, probe) IN
        /\ last_call' = [state |-> probe, n |-> IF last_call.n = 0 THEN 1 ELSE 2, result |-> o.result,
                         block_fetched |-> o.block_fetched]
        /\ first_result' = IF last_call.n = 0 THEN o.result ELSE first_result
    /\ UNCHANGED <<condition, compiled_cond, compile_state, compile_exc,
                   condition_function, static_addrs, default_engine,
                   hook_vars, select_vars>>

\* the caller changes the list or the set it passed as the condition
MutateCondition ==
    /\ compile_state = "ok"
    /\ \/ /\ condition.type = "list"
          /\ \/ \E a \in Addrs : /\ Len(condition.seq) < MaxLen
                                 /\ condition' = [condition EXCEPT !.seq = Append(@, a)]
             \/ /\ Len(condition.seq) > 0
                /\ condition' = [condition EXCEPT !.seq = SubSeq(@, 1, Len(@) - 1)]
       \/ /\ condition.type = "set"
          /\ \E a \in Addrs : \/ condition' = [condition EXCEPT !.elems = @ \cup {a}]
                              \/ condition' = [condition EXCEPT !.elems = @ \ {a}]
    /\ condition' # condition
    /\ UNCHANGED <<compiled_cond, compile_state, compile_exc, condition_function,
                   static_addrs, default_engine, last_call, first_result,
                   hook_vars, select_vars>>

\* the caller changes the static address set it was handed: the same object
\* the closure reads (line 137 binds it, line 161 returns it)
MutateStatic ==
    /\ compile_state = "ok"
    /\ ~static_addrs.is_none
    /\ \E a \in Addrs : \/ static_addrs' = [static_addrs EXCEPT !.elems = @ \cup {a}]
                        \/ static_addrs' = [static_addrs EXCEPT !.elems = @ \ {a}]
    /\ static_addrs' # static_addrs
    /\ UNCHANGED <<condition, compiled_cond, compile_state, compile_exc,
                   condition_function, default_engine, last_call, first_result,
                   hook_vars, select_vars>>

CompileAny == \E c \in Conditions, d \in BOOLEAN : Compile(c, d)

(***************************************************************************)
(* Python's binding of a call to a function's declared parameters.         *)
(* A signature is what inspect.getargspec reads: args (self included),     *)
(* the number of trailing parameters with a default, and **kwargs.         *)
(* Keyword arguments are a set of <<name, value>> pairs.                   *)
(***************************************************************************)
Sig(a, nd, vk) == [args |-> a, ndefaults |-> nd, varkw |-> vk]

KwNames(kw) == {p[1] : p \in kw}

KwGet(kw, n) == (CHOOSE p \in kw : p[1] = n)[2]

IndexOfName(args, n) == CHOOSE i \in 1..Len(args) : args[i] = n

DefaultOf(name) == IF name = "stash" THEN "active"
                   ELSE IF name = "n" THEN "1" ELSE "None"

NoBinding == [ok |-> FALSE, bound |-> <<>>, extra |-> {}]

Bind(sig, pos, kw) ==
    LET n == Len(sig.args)
        names == RangeOf(sig.args)
        tooMany == Len(pos) > n
        twice == \E k \in KwNames(kw) :
                    k \in names /\ IndexOfName(sig.args, k) <= Len(pos)
        unexpected == ~sig.varkw /\ \E k \in KwNames(kw) : k \notin names
        missing == \E i \in (Len(pos) + 1)..(n - sig.ndefaults) :
                      sig.args[i] \notin KwNames(kw)
    IN  IF tooMany \/ twice \/ unexpected \/ missing THEN NoBinding
        ELSE [ok |-> TRUE,
              bound |-> [i \in 1..n |->
                            IF i <= Len(pos) THEN pos[i]
                            ELSE IF sig.args[i] \in KwNames(kw) THEN KwGet(kw, sig.args[i])
                            ELSE DefaultOf(sig.args[i])],
              extra |-> {p \in kw : p[1] \notin names}]

(***************************************************************************)
(* What a hook invocation did: the calls it made, in order, and what it    *)
(* returned or raised.                                                     *)
(***************************************************************************)
Ev(callee, pos, kw, ret) == [callee |-> callee, pos |-> pos, kw |-> kw, ret |-> ret]

Ok(v) == [raised |-> "none", value |-> v]

Exc(e) == [raised |-> e, value |-> "None"]

Ran(events, ret) == [events |-> events, ret |-> ret]

\* the declared parameters of the hooks of ExplorationTechnique
StepSig == Sig(<<"self", "simgr", "stash">>, 1, TRUE)

FilterSig == Sig(<<"self", "simgr", "state", "filter_func">>, 1, FALSE)

StepStateSig == Sig(<<"self", "simgr", "state", "successor_func">>, 1, TRUE)

(***************************************************************************)
(* ExplorationTechnique.step / filter / step_state: the next link is       *)
(* called once and its result returned.  nxt is what the next link         *)
(* returns.                                                                *)
(***************************************************************************)
step(pos, kw, nxt) ==
    LET b == Bind(StepSig, pos, kw) IN
    IF ~b.ok THEN Ran(<<>>, Exc("TypeError"))
    ELSE Ran(<<Ev("simgr.step", <<>>, {<<"stash", b.bound[3]>>} \cup b.extra, nxt)>>,
             Ok(nxt))

filter(pos, kw, nxt) ==
    LET b == Bind(FilterSig, pos, kw) IN
    IF ~b.ok THEN Ran(<<>>, Exc("TypeError"))
    ELSE Ran(<<Ev("simgr.filter", <<b.bound[3]>>, {<<"filter_func", b.bound[4]>>}, nxt)>>,
             Ok(nxt))

step_state(pos, kw, nxt) ==
    LET b == Bind(StepStateSig, pos, kw) IN
    IF ~b.ok THEN Ran(<<>>, Exc("TypeError"))
    ELSE Ran(<<Ev("simgr.step_state", <<b.bound[3]>>,
                  {<<"successor_func", b.bound[4]>>} \cup b.extra, nxt)>>,
             Ok(nxt))

(***************************************************************************)
(* An override, run on the arguments bound to its parameters.  What it     *)
(* does is its author's: how is "delegate" (call the next link with what   *)
(* it was given and return that), "perform" (do the work itself),          *)
(* "elsewhere" (step another stash); res is what a filter or step_state    *)
(* override returns, nxt what the next link returns.                       *)
(***************************************************************************)
RunStepOverride(b, how, nxt) ==
    IF how = "delegate"
    THEN Ran(<<Ev("override.step", b.bound, b.extra, nxt),
               Ev("simgr.step", <<>>, {<<"stash", b.bound[3]>>} \cup b.extra, nxt)>>, Ok(nxt))
    ELSE IF how = "elsewhere"
    THEN Ran(<<Ev("override.step", b.bound, b.extra, nxt),
               Ev("simgr.step", <<>>, {<<"stash", "deferred">>} \cup b.extra, nxt)>>, Ok(nxt))
    ELSE Ran(<<Ev("override.step", b.bound, b.extra, b.bound[2])>>, Ok(b.bound[2]))

RunOverride(name, b, res) == Ran(<<Ev(name, b.bound, b.extra, res)>>, Ok(res))

(***************************************************************************)
(* The wrappers of the compatibility layer.                                *)
(***************************************************************************)
\* a variant that always steps 'active'
step_wrapped_active(sig, how, pos, kw, nxt) ==
    LET w == Bind(Sig(<<"self", "simgr", "stash">>, 1, TRUE), pos, kw) IN
    IF ~w.ok THEN Ran(<<>>, Exc("TypeError"))
    ELSE LET b == Bind(sig, <<w.bound[1], w.bound[2], "active">>, w.extra) IN
         IF ~b.ok THEN Ran(<<>>, Exc("TypeError"))
         ELSE RunStepOverride(b, how, nxt)

\* _step_factory(step): step_wrapped(self, simgr, stash='active', **kwargs)
step_wrapped(sig, how, pos, kw, nxt) ==
    LET w == Bind(Sig(<<"self", "simgr", "stash">>, 1, TRUE), pos, kw) IN
    IF ~w.ok THEN Ran(<<>>, Exc("TypeError"))
    ELSE LET b == Bind(sig, <<w.bound[1], w.bound[2], w.bound[3]>>, w.extra) IN
         IF ~b.ok THEN Ran(<<>>, Exc("TypeError"))
         ELSE RunStepOverride(b, how, nxt)

\* a variant that tests the result's truth: "if not result"
IsFalsyResult(v) == v \in {"None", "empty_str", "empty_dict"}

\* result is None
IsNone(v) == v = "None"

\* _filter_factory(func): filter_wrapped(self, simgr, state, filter_func=None)
filter_wrapped(sig, res, pos, kw, nxt) ==
    LET w == Bind(Sig(<<"self", "simgr", "state", "filter_func">>, 1, FALSE), pos, kw) IN
    IF ~w.ok THEN Ran(<<>>, Exc("TypeError"))
    ELSE LET b == Bind(sig, <<w.bound[1], w.bound[3]>>, {}) IN
         IF ~b.ok THEN Ran(<<>>, Exc("TypeError"))
         ELSE IF IsNone(res)
         THEN Ran(<<Ev("override.filter", b.bound, b.extra, res),
                    Ev("simgr.filter", <<w.bound[3]>>, {<<"filter_func", w.bound[4]>>}, nxt)>>,
                  Ok(nxt))
         ELSE RunOverride("override.filter", b, res)

\* _step_state_factory(step_state):
\* step_state_wrapped(self, simgr, state, successor_func=None, **kwargs)
step_state_wrapped(sig, res, pos, kw, nxt) ==
    LET w == Bind(Sig(<<"self", "simgr", "state", "successor_func">>, 1, TRUE), pos, kw) IN
    IF ~w.ok THEN Ran(<<>>, Exc("TypeError"))
    ELSE LET b == Bind(sig, <<w.bound[1], w.bound[3]>>, w.extra) IN
         IF ~b.ok THEN Ran(<<>>, Exc("TypeError"))
         ELSE IF IsNone(res)
         THEN Ran(<<Ev("override.step_state", b.bound, b.extra, res),
                    Ev("simgr.step_state", <<w.bound[3]>>,
                       {<<"successor_func", w.bound[4]>>} \cup w.extra, nxt)>>,
                  Ok(nxt))
         ELSE RunOverride("override.step_state", b, res)

(***************************************************************************)
(* ExplorationTechniqueMeta.__new__: which overrides are replaced by a     *)
(* wrapper.  attrs holds, per hook, whether the class body defines it,     *)
(* its signature, and (afterwards) whether it was wrapped.                 *)
(***************************************************************************)
Absent == [defined |-> FALSE, sig |-> Sig(<<>>, 0, FALSE), wrapped |-> FALSE]

Override(sig) == [defined |-> TRUE, sig |-> sig, wrapped |-> FALSE]

\* not inspect.getargspec(attrs['step']).defaults
WrapsStep(sig) == sig.ndefaults = 0

\* a variant that goes by the number of parameters
WrapsByShape(sig) == Len(sig.args) < 3

\* inspect.getargspec(f).args[1] != 'simgr'
WrapsByName(sig) == sig.args[2] # "simgr"

\* args[1] of a function that declares fewer than two parameters
NoSecondArg(o) == o.defined /\ Len(o.sig.args) < 2

Wrap(o, yes) == IF o.defined /\ yes THEN [o EXCEPT !.wrapped = TRUE] ELSE o

__new__(name, attrs) ==
    IF name = "ExplorationTechniqueCompat" THEN [exc |-> "none", attrs |-> attrs]
    ELSE IF NoSecondArg(attrs.filter) \/ NoSecondArg(attrs.step_state)
    THEN [exc |-> "IndexError", attrs |-> attrs]
    ELSE [exc |-> "none",
          attrs |-> [step |-> Wrap(attrs.step, WrapsStep(attrs.step.sig)),
                     filter |-> Wrap(attrs.filter,
                                     attrs.filter.defined /\ WrapsByName(attrs.filter.sig)),
                     step_state |-> Wrap(attrs.step_state,
                                         attrs.step_state.defined
                                         /\ WrapsByName(attrs.step_state.sig))]]

\* the overrides a technique's author may write
StepOverrides ==
    {Absent,
     Override(Sig(<<"self", "simgr", "stash">>, 1, TRUE)),
     Override(Sig(<<"self", "simgr", "stash">>, 0, TRUE)),
     Override(Sig(<<"self", "pg", "stash">>, 0, FALSE)),
     Override(Sig(<<"self", "simgr", "stash", "n">>, 1, FALSE))}

FilterOverrides ==
    {Absent,
     Override(Sig(<<"self", "simgr", "state", "filter_func">>, 1, FALSE)),
     Override(Sig(<<"self", "sm", "state", "filter_func">>, 1, FALSE)),
     Override(Sig(<<"self", "state">>, 0, FALSE)),
     Override(Sig(<<"self", "path">>, 0, FALSE)),
     Override(Sig(<<"self">>, 0, TRUE))}

StepStateOverrides ==
    {Absent,
     Override(Sig(<<"self", "simgr", "state", "successor_func">>, 1, TRUE)),
     Override(Sig(<<"self", "sm", "state", "successor_func">>, 1, TRUE)),
     Override(Sig(<<"self", "state">>, 0, TRUE)),
     Override(Sig(<<"self", "path">>, 0, FALSE))}

ClassNames == {"ExplorationTechniqueCompat", "Explorer"}

NoAttrs == [step |-> Absent, filter |-> Absent, step_state |-> Absent]

NoHookCall == [hook |-> "none", via |-> "none", pos |-> <<>>, kw |-> {},
               how |-> "none", res |-> "None", nxt |-> "None",
               events |-> <<>>, ret |-> Ok("None")]

InitHookVars ==
    /\ klass = [built |-> "no", name |-> "none", exc |-> "none", attrs |-> NoAttrs]
    /\ hook_call = NoHookCall

\* class <name>(ExplorationTechnique): ...
Register ==
    /\ klass.built = "no"
    /\ \E name \in ClassNames, s \in StepOverrides, f \in FilterOverrides,
          ss \in StepStateOverrides :
        LET r == __new__(name, [step |-> s, filter |-> f, step_state |-> ss]) IN
        klass' = [built |-> IF r.exc = "none" THEN "yes" ELSE "raised",
                  name |-> name, exc |-> r.exc, attrs |-> r.attrs]
    /\ UNCHANGED <<hook_call, matcher_vars, select_vars>>

\* which function the class attribute is
Via(o) == IF ~o.defined THEN "base" ELSE IF o.wrapped THEN "adapter" ELSE "override"

Managers == {"simgr", "simgr_stepped"}

Options == {{}, {<<"n", "2">>}}

Stashes == {"active", "found"}

HookStates == {"s1", "s2"}

FilterResults == {"None", "found", "empty_str"}

StepStateResults == {"None", "stashes", "empty_dict"}

\* tech.step(simgr, stash=..., **kwargs), or with the stash name omitted
CallStep ==
    /\ klass.built = "yes"
    /\ hook_call.hook = "none"
    /\ \E st \in Stashes \cup {"omitted"}, opts \in Options, nxt \in Managers,
          how \in {"delegate", "perform", "elsewhere"} :
        LET o == klass.attrs.step
            pos == <<"self", "simgr">>
            kw == (IF st = "omitted" THEN {} ELSE {<<"stash", st>>}) \cup opts
            b == Bind(o.sig, pos, kw)
            r == IF ~o.defined THEN step(pos, kw, nxt)
                 ELSE IF o.wrapped THEN step_wrapped(o.sig, how, pos, kw, nxt)
                 ELSE IF ~b.ok THEN Ran(<<>>, Exc("TypeError"))
                 ELSE RunStepOverride(b, how, nxt)
        IN hook_call' = [hook |-> "step", via |-> Via(o), pos |-> pos, kw |-> kw,
                         how |-> IF o.defined THEN how ELSE "none", res |-> "None",
                         nxt |-> nxt, events |-> r.events, ret |-> r.ret]
    /\ UNCHANGED <<klass, matcher_vars, select_vars>>

\* tech.filter(simgr, state, filter_func=filter_func)
CallFilter ==
    /\ klass.built = "yes"
    /\ hook_call.hook = "none"
    /\ \E s \in HookStates, ff \in {"None", "ff"}, res \in FilterResults,
          nxt \in FilterResults :
        LET o == klass.attrs.filter
            pos == <<"self", "simgr", s>>
            kw == {<<"filter_func", ff>>}
            b == Bind(o.sig, pos, kw)
            r == IF ~o.defined THEN filter(pos, kw, nxt)
                 ELSE IF o.wrapped THEN filter_wrapped(o.sig, res, pos, kw, nxt)
                 ELSE IF ~b.ok THEN Ran(<<>>, Exc("TypeError"))
                 ELSE RunOverride("override.filter", b, res)
        IN hook_call' = [hook |-> "filter", via |-> Via(o), pos |-> pos, kw |-> kw,
                         how |-> "none", res |-> IF o.defined THEN res ELSE "None",
                         nxt |-> nxt, events |-> r.events, ret |-> r.ret]
    /\ UNCHANGED <<klass, matcher_vars, select_vars>>

\* tech.step_state(simgr, state, successor_func=successor_func, **kwargs)
CallStepState ==
    /\ klass.built = "yes"
    /\ hook_call.hook = "none"
    /\ \E s \in HookStates, sf \in {"None", "sf"}, opts \in Options,
          res \in StepStateResults, nxt \in StepStateResults :
        LET o == klass.attrs.step_state
            pos == <<"self", "simgr", s>>
            kw == {<<"successor_func", sf>>} \cup opts
            b == Bind(o.sig, pos, kw)
            r == IF ~o.defined THEN step_state(pos, kw, nxt)
                 ELSE IF o.wrapped THEN step_state_wrapped(o.sig, res, pos, kw, nxt)
                 ELSE IF ~b.ok THEN Ran(<<>>, Exc("TypeError"))
                 ELSE RunOverride("override.step_state", b, res)
        IN hook_call' = [hook |-> "step_state", via |-> Via(o), pos |-> pos, kw |-> kw,
                         how |-> "none", res |-> IF o.defined THEN res ELSE "None",
                         nxt |-> nxt, events |-> r.events, ret |-> r.ret]
    /\ UNCHANGED <<klass, matcher_vars, select_vars>>

\* the invocation is over; the wrappers keep nothing between invocations
HookReturn ==
    /\ hook_call.hook # "none"
    /\ hook_call' = NoHookCall
    /\ UNCHANGED <<klass, matcher_vars, select_vars>>

(***************************************************************************)
(* select.run.  A bitvector is the sequence of its bits, lowest first      *)
(* (bit k is element k + 1); a bit is "0", "1", "s" (symbolic in memory)   *)
(* or "f" (a fresh fd_state bit).                                          *)
(***************************************************************************)
ArchBits == {8, 16, 32, 64}

\* what an operation on bitvectors yields when claripy refuses it
ClaripyError == <<"!">>

IsError(w) == w = ClaripyError

\* claripy Extract(high, low, bv): bits high..low, or an error
Extract(high, low, w) ==
    IF IsError(w) \/ high < 0 \/ low < 0 \/ low > high \/ high >= Len(w)
    THEN ClaripyError
    ELSE [k \in 1..(high - low + 1) |-> w[low + k]]

\* a slice bound below zero counts from the length
FromEnd(x, w) == IF x < 0 THEN Len(w) + x ELSE x

\* bv[start:stop]
GetSlice(w, start, stop) == Extract(FromEnd(start, w), FromEnd(stop, w), w)

\* bv[start:], the stop left out
GetSliceFrom(w, start) == Extract(FromEnd(start, w), 0, w)

\* bv[k]
GetBit(w, k) == Extract(k, k, w)

\* a.concat(b): a above b
Concat(a, b) == IF IsError(a) \/ IsError(b) THEN ClaripyError ELSE b \o a

\* lines 33-35: the word with bit bit_offset made symbolic
SetSymbolic(w, arch_bits, bit_offset) ==
    Concat(Concat(GetSlice(w, arch_bits - 1, bit_offset + 1), <<"f">>),
           GetSliceFrom(w, bit_offset - 1))

\* line 21
LongArraySize(nfds_v, arch_bits) == ((nfds_v - 1) + 7) \div arch_bits

\* the words readfds points at
Patterns == {"zeros", "ones", "symbolic", "lowest", "highest"}

Word(p, bits) ==
    [k \in 1..bits |->
        IF p = "zeros" THEN "0"
        ELSE IF p = "ones" THEN "1"
        ELSE IF p = "symbolic" THEN "s"
        ELSE IF p = "lowest" THEN (IF k = 1 THEN "1" ELSE "0")
        ELSE (IF k = bits THEN "1" ELSE "0")]

NoReplace == [done |-> FALSE, long_pos |-> 0, bit_offset |-> 0,
              before |-> <<>>, after |-> <<>>]

SelStart(n, bits, p) ==
    [pc |-> "start", nfds_v |-> n, arch_bits |-> bits, pattern |-> p,
     long_array_size |-> 0, long_array |-> <<>>, i |-> 0, exc |-> "none",
     replaced |-> NoReplace, stored |-> <<>>]

InitSelectVars ==
    \E n \in 0..MaxNfds, bits \in ArchBits, p \in Patterns : sel = SelStart(n, bits, p)

IdleSelectVars == sel = SelStart(0, 8, "zeros")

\* lines 15-24: the words are loaded
SelLoad ==
    /\ sel.pc = "start"
    /\ LET size == LongArraySize(sel.nfds_v, sel.arch_bits) IN
       sel' = [sel EXCEPT !.pc = "loop",
                          !.long_array_size = size,
                          !.long_array = [o \in 1..size |-> Word(sel.pattern, sel.arch_bits)]]
    /\ UNCHANGED <<matcher_vars, hook_vars>>

\* lines 25-35: one turn of the bit loop
SelBit ==
    /\ sel.pc = "loop"
    /\ sel.i < sel.nfds_v - 1
    /\ LET long_pos == sel.i \div sel.arch_bits
           bit_offset == sel.i % sel.arch_bits
       IN
       IF long_pos >= Len(sel.long_array)
       THEN sel' = [sel EXCEPT !.pc = "raised", !.exc = "IndexError"]
       ELSE LET w == sel.long_array[long_pos + 1]
                bit == GetBit(w, bit_offset)
            IN
            IF IsError(bit)
            THEN sel' = [sel EXCEPT !.pc = "raised", !.exc = "ClaripyOperationError"]
            ELSE IF bit[1] \in {"s", "f", "1"}
            THEN LET nw == SetSymbolic(w, sel.arch_bits, bit_offset) IN
                 IF IsError(nw)
                 THEN sel' = [sel EXCEPT !.pc = "raised", !.exc = "ClaripyOperationError",
                                         !.replaced = [done |-> FALSE, long_pos |-> long_pos,
                                                       bit_offset |-> bit_offset,
                                                       before |-> w, after |-> nw]]
                 ELSE sel' = [sel EXCEPT !.i = @ + 1,
                                         !.long_array[long_pos + 1] = nw,
                                         !.replaced = [done |-> TRUE, long_pos |-> long_pos,
                                                       bit_offset |-> bit_offset,
                                                       before |-> w, after |-> nw]]
            ELSE sel' = [sel EXCEPT !.i = @ + 1, !.replaced = NoReplace]
    /\ UNCHANGED <<matcher_vars, hook_vars>>

\* lines 37-42: the words are written back
SelStore ==
    /\ sel.pc = "loop"
    /\ sel.i >= sel.nfds_v - 1
    /\ sel' = [sel EXCEPT !.pc = "done",
                          !.stored = [o \in 1..sel.long_array_size |-> sel.long_array[o]]]
    /\ UNCHANGED <<matcher_vars, hook_vars>>

(***************************************************************************)
(* The specifications.                                                     *)
(***************************************************************************)
InitMatcher == InitMatcherVars /\ InitHookVars /\ IdleSelectVars

NextMatcher == CompileAny \/ Call

SpecMatcher == InitMatcher /\ [][NextMatcher]_vars

NextCaller == CompileAny \/ Call \/ MutateCondition

SpecCaller == InitMatcher /\ [][NextCaller]_vars

NextAlias == CompileAny \/ Call \/ MutateCondition \/ MutateStatic

SpecAlias == InitMatcher /\ [][NextAlias]_vars

InitHooks == IdleMatcherVars /\ InitHookVars /\ IdleSelectVars

NextHooks == Register \/ CallStep \/ CallFilter \/ CallStepState \/ HookReturn

SpecHooks == InitHooks /\ [][NextHooks]_vars

InitSelect == IdleMatcherVars /\ InitHookVars /\ InitSelectVars

NextSelect == SelLoad \/ SelBit \/ SelStore

SpecSelect == InitSelect /\ [][NextSelect]_vars

Init == InitMatcher

Next == NextAlias

Spec == SpecAlias

(***************************************************************************)
(* The claims.                                                             *)
(***************************************************************************)
\* the addresses of an int, tuple, list or set condition, read off the object
InCondition(a, c) ==
    \/ c.type = "int" /\ a = c.val
    \/ c.type \in {"tuple", "list"} /\ \E k \in 1..Len(c.seq) : c.seq[k] = a
    \/ c.type = "set" /\ a \in c.elems

AddrsIn(c) == {a \in Addrs : InCondition(a, c)}

Called == compile_state = "ok" /\ last_call.n > 0

\* C1: for an int, tuple, set or list condition and a state whose address is
\* in the condition, the predicate returns exactly the set {state.addr} (never
\* a bare True), whatever the default engine, and state.block() is not called;
\* an int A compiles to the predicate and static set {A} that (A,) compiles to.
C1_AtAddressSingleton ==
    /\ (Called /\ compiled_cond.type \in {"int", "tuple", "set", "list"}
          /\ InCondition(probe.addr, compiled_cond))
       => /\ last_call.result = PySet({probe.addr})
          /\ ~last_call.block_fetched
    /\ (compile_state = "ok" /\ compiled_cond.type = "int")
       => /\ static_addrs = [is_none |-> FALSE, elems |-> {compiled_cond.val}]
          /\ \A d \in BOOLEAN :
                LET r == _condition_to_lambda(
                            Cond("tuple", 0, <<compiled_cond.val>>, {}, "none"), d)
                IN r.fn = condition_function /\ r.static = static_addrs

C1_Witness ==
    /\ Called /\ compiled_cond.type = "int"
    /\ probe.addr = compiled_cond.val
    /\ default_engine = "SimEngineVEX"
    /\ probe.block.raises = "TypeError"
    /\ last_call.result = PySet({probe.addr})

\* C2: for a tuple, set or list condition S and a state whose address is not
\* in S: under a SimEngineVEX default engine (the block being obtained) the
\* predicate returns S intersected with the block's instruction addresses;
\* under another engine it returns a falsy value and state.block() is not
\* called.
C2_OffAddressBlockIntersection ==
    (Called /\ compiled_cond.type \in {"tuple", "set", "list"}
       /\ ~InCondition(probe.addr, compiled_cond))
    => /\ (default_engine = "SimEngineVEX" /\ probe.block.raises = "none")
          => last_call.result
               = PySet({a \in AddrsIn(compiled_cond) : a \in probe.block.instruction_addrs})
       /\ default_engine = "SimEngineUnicorn"
          => Falsy(last_call.result) /\ ~last_call.block_fetched

C2_Witness ==
    /\ Called /\ compiled_cond.type = "set"
    /\ Cardinality(compiled_cond.elems) = 2
    /\ ~InCondition(probe.addr, compiled_cond)
    /\ default_engine = "SimEngineVEX"
    /\ probe.block.raises = "none"
    /\ probe.addr \in probe.block.instruction_addrs
    /\ Cardinality(last_call.result.elems) = 1
    /\ last_call.block_fetched

C2_WitnessNoIntrospection ==
    /\ Called /\ compiled_cond.type = "list"
    /\ ~InCondition(probe.addr, compiled_cond)
    /\ default_engine = "SimEngineUnicorn"
    /\ probe.block.instruction_addrs \cap AddrsIn(compiled_cond) # {}
    /\ last_call.result = PyBool(FALSE)

\* the block probe was made and raised
ProbeRaised ==
    /\ Called /\ compiled_cond.type \in {"int", "tuple", "set", "list"}
    /\ ~InCondition(probe.addr, compiled_cond)
    /\ default_engine = "SimEngineVEX"
    /\ probe.block.raises # "none"

\* C3 as stated: whatever error fetching or evaluating the block raises, the
\* predicate returns a falsy value and no exception reaches its caller.
C3_AnyErrorSwallowed == ProbeRaised => Falsy(last_call.result)

\* C3 amended: an AngrError or a SimError raised by the block probe is caught
\* and the predicate returns False; an error of another class reaches the
\* caller.
C3_AngrSimErrorSwallowed ==
    ProbeRaised
    => IF probe.block.raises \in {"AngrError", "SimError"}
       THEN last_call.result = PyBool(FALSE)
       ELSE last_call.result = PyRaise(probe.block.raises)

C3_Witness == ProbeRaised /\ probe.block.raises = "SimError"
              /\ last_call.result = PyBool(FALSE)

\* C4: a predicate called twice on the same unchanged state returns the same
\* result, whatever happened in between to the collection passed as the
\* condition or to the static address set returned with the predicate.
C4_SameResultTwice ==
    (Called /\ last_call.n = 2 /\ first_result.kind # "raise")
    => last_call.result = first_result

\* C5: _condition_to_lambda raises AngrExplorationTechniqueError, naming the
\* condition's type and returning no predicate, exactly for the conditions
\* that are not None, not an int, not a tuple, set or list and not callable.
C5_UnsupportedTypeRaises ==
    compile_state # "no"
    => /\ compile_state = "raised"
          <=> compiled_cond.type
                \notin {"NoneType", "int", "tuple", "set", "list", "function"}
       /\ compile_state = "raised"
          => /\ compile_exc = [cls |-> "AngrExplorationTechniqueError",
                               named |-> compiled_cond.type]
             /\ condition_function.kind = "none"
       /\ compile_state = "ok" => compile_exc.cls = "none"

C5_Witness == compile_state = "raised" /\ compiled_cond.type = "frozenset"
              /\ compile_exc.named = "frozenset"

C5_WitnessSupported == compile_state = "ok" /\ compiled_cond.type = "function"
                       /\ static_addrs.is_none

(***************************************************************************)
(* Claims on the hooks.                                                    *)
(***************************************************************************)
EventsTo(callee) == {k \in 1..Len(hook_call.events) : hook_call.events[k].callee = callee}

TheEvent(callee) == hook_call.events[CHOOSE k \in EventsTo(callee) : TRUE]

GivenOptions == {p \in hook_call.kw : p[1] \notin {"stash", "filter_func", "successor_func"}}

Given(name) == (CHOOSE p \in hook_call.kw : p[1] = name)[2]

GivenStash == IF \E p \in hook_call.kw : p[1] = "stash" THEN Given("stash") ELSE "active"

Adapted(hook) == /\ hook_call.hook = hook /\ hook_call.via = "adapter"
                 /\ hook_call.ret.raised = "none"

\* C6: when an adapted legacy filter (step_state) returns None, the next
\* link's filter (step_state) is called exactly once with the same state and
\* the same filter_func (successor_func and options) and its result is
\* returned; a result other than None is returned as it is and the next link
\* is not called.
C6_LegacyNoneFallsBack ==
    /\ Adapted("filter")
       => IF hook_call.res = "None"
          THEN /\ Cardinality(EventsTo("simgr.filter")) = 1
               /\ TheEvent("simgr.filter").pos = <<hook_call.pos[3]>>
               /\ TheEvent("simgr.filter").kw = {<<"filter_func", Given("filter_func")>>}
               /\ hook_call.ret.value = hook_call.nxt
          ELSE /\ EventsTo("simgr.filter") = {}
               /\ hook_call.ret.value = hook_call.res
    /\ Adapted("step_state")
       => IF hook_call.res = "None"
          THEN /\ Cardinality(EventsTo("simgr.step_state")) = 1
               /\ TheEvent("simgr.step_state").pos = <<hook_call.pos[3]>>
               /\ TheEvent("simgr.step_state").kw
                    = {<<"successor_func", Given("successor_func")>>} \cup GivenOptions
               /\ hook_call.ret.value = hook_call.nxt
          ELSE /\ EventsTo("simgr.step_state") = {}
               /\ hook_call.ret.value = hook_call.res

C6_Witness ==
    /\ Adapted("step_state") /\ hook_call.res = "None"
    /\ GivenOptions # {} /\ Given("successor_func") = "sf"
    /\ hook_call.nxt = "stashes" /\ hook_call.ret.value = "stashes"

C6_WitnessDecided ==
    /\ Adapted("filter") /\ hook_call.res = "empty_str"
    /\ hook_call.nxt = "found" /\ hook_call.ret.value = "empty_str"

\* the next link's step was called once, with the stash name and the options
\* given, and its result returned
HandedOn ==
    /\ Cardinality(EventsTo("simgr.step")) = 1
    /\ TheEvent("simgr.step").pos = <<>>
    /\ TheEvent("simgr.step").kw = {<<"stash", GivenStash>>} \cup GivenOptions
    /\ hook_call.ret.value = hook_call.nxt

\* C7 as stated: the base step, and every step override adapted by the
\* compatibility layer, calls the next link's step exactly once with the
\* stash name ('active' when omitted) and options it received and returns
\* what that call returned.
C7_StepAlwaysHandsOn ==
    (hook_call.hook = "step" /\ hook_call.via \in {"base", "adapter"}
       /\ hook_call.ret.raised = "none")
    => HandedOn

\* C7 amended: the base step hands the round on so; the adapter of a step
\* override calls the override exactly once with the orchestrator, the stash
\* name ('active' when omitted) and the options it received, and returns
\* what the override returned.
C7_BaseHandsOnAdapterCallsOverride ==
    /\ (hook_call.hook = "step" /\ hook_call.via = "base") => HandedOn
    /\ Adapted("step")
       => /\ Cardinality(EventsTo("override.step")) = 1
          /\ SubSeq(TheEvent("override.step").pos, 1, 3) = <<"self", "simgr", GivenStash>>
          /\ TheEvent("override.step").kw = GivenOptions
          /\ hook_call.ret.value = TheEvent("override.step").ret

C7_Witness ==
    /\ Adapted("step") /\ hook_call.how = "perform"
    /\ GivenStash = "found" /\ GivenOptions # {}
    /\ EventsTo("simgr.step") = {}

C7_WitnessOmitted ==
    /\ Adapted("step") /\ hook_call.how = "delegate"
    /\ ~\E p \in hook_call.kw : p[1] = "stash"
    /\ TheEvent("simgr.step").kw = {<<"stash", "active">>}

\* the override takes (orchestrator, state, options): three or more parameters
CanonicalShape(o) == o.defined /\ Len(o.sig.args) >= 3

LegacyShape(o) == o.defined /\ Len(o.sig.args) = 2

Adaptable == klass.built = "yes" /\ klass.name # "ExplorationTechniqueCompat"

StashOmitted == hook_call.hook = "step" /\ ~\E p \in hook_call.kw : p[1] = "stash"

\* C8 as stated: a filter or step_state override is wrapped exactly when it
\* has not the canonical shape, whatever its parameters are named, and an
\* unwrapped override receives the canonical arguments; every step override
\* left unwrapped can be called with the stash name omitted.
C8_WrapsByShape ==
    /\ Adaptable
       => \A o \in {klass.attrs.filter, klass.attrs.step_state} :
             /\ CanonicalShape(o) => ~o.wrapped
             /\ LegacyShape(o) => o.wrapped
    /\ (Adaptable /\ StashOmitted /\ hook_call.via = "override")
       => hook_call.ret.raised = "none"

\* C8 amended: a filter or step_state override is wrapped exactly when its
\* second parameter is not named 'simgr', a step override exactly when it
\* declares no default; an unwrapped filter or step_state override of the
\* canonical shape receives the canonical arguments unchanged; an unwrapped
\* step override can be called with the stash name omitted exactly when its
\* stash parameter has a default.
C8_WrapsByNameAndDefaults ==
    /\ Adaptable
       => /\ \A o \in {klass.attrs.filter, klass.attrs.step_state} :
                o.defined => (o.wrapped <=> o.sig.args[2] # "simgr")
          /\ klass.attrs.step.defined
             => (klass.attrs.step.wrapped <=> klass.attrs.step.sig.ndefaults = 0)
    /\ (klass.built = "yes" /\ hook_call.hook = "filter" /\ hook_call.via = "override"
          /\ CanonicalShape(klass.attrs.filter))
       => /\ hook_call.ret.raised = "none"
          /\ TheEvent("override.filter").pos
               = <<"self", "simgr", hook_call.pos[3], Given("filter_func")>>
    /\ (klass.built = "yes" /\ hook_call.hook = "step_state" /\ hook_call.via = "override"
          /\ CanonicalShape(klass.attrs.step_state))
       => /\ hook_call.ret.raised = "none"
          /\ TheEvent("override.step_state").pos
               = <<"self", "simgr", hook_call.pos[3], Given("successor_func")>>
          /\ TheEvent("override.step_state").kw = GivenOptions
    /\ (klass.built = "yes" /\ StashOmitted /\ hook_call.via = "override")
       => (hook_call.ret.raised = "none"
             <=> klass.attrs.step.sig.ndefaults >= Len(klass.attrs.step.sig.args) - 2)

C8_Witness ==
    /\ Adaptable
    /\ CanonicalShape(klass.attrs.filter) /\ klass.attrs.filter.sig.args[2] = "sm"
    /\ klass.attrs.filter.wrapped
    /\ hook_call.hook = "filter" /\ hook_call.ret.raised = "TypeError"

C8_WitnessStep ==
    /\ Adaptable /\ StashOmitted /\ hook_call.via = "override"
    /\ Len(klass.attrs.step.sig.args) = 4
    /\ hook_call.ret.raised = "TypeError"

(***************************************************************************)
(* Claims on select.run.                                                   *)
(***************************************************************************)
\* C9: for nfds >= 1 every index i the bit loop visits addresses a loaded
\* word: i // arch_bits < long_array_size; no access runs past long_array
\* and as many words are written back as were loaded.
C9_BitLoopInBounds ==
    /\ (sel.pc = "loop" /\ sel.nfds_v >= 1 /\ sel.i < sel.nfds_v - 1)
       => sel.i \div sel.arch_bits < sel.long_array_size
    /\ sel.exc # "IndexError"
    /\ sel.pc = "done" => Len(sel.stored) = sel.long_array_size

\* C10: making bit bit_offset of a word symbolic keeps the word arch_bits
\* wide and every other bit as it was, for every bit_offset in
\* 0 .. arch_bits - 1; a bit that is concretely 0 is not replaced.
C10_ReplaceKeepsWordShape ==
    /\ sel.exc # "ClaripyOperationError"
    /\ sel.replaced.done
       => /\ Len(sel.replaced.after) = sel.arch_bits
          /\ sel.replaced.after[sel.replaced.bit_offset + 1] = "f"
          /\ \A k \in 1..sel.arch_bits :
                k # sel.replaced.bit_offset + 1
                => sel.replaced.after[k] = sel.replaced.before[k]
          /\ sel.replaced.before[sel.replaced.bit_offset + 1] # "0"

====
